---- MODULE Spec2Model ----
(***************************************************************************)
(* WaterMarkTool (src/src/waterMark.py): the watermark compositing engine  *)
(* WatermarkProcessor and the WatermarkApp handlers that call it.          *)
(*                                                                         *)
(* An image is modelled by its size and by one probe pixel: every image    *)
(* operation of the engine but three acts on each pixel independently, so  *)
(* a statement about "every pixel" is a statement about the probe under    *)
(* every choice of the values the three others give there.  The three are  *)
(* library routines whose output the repository does not compute (glyph    *)
(* rasterisation and text measurement, Gaussian blur, Lanczos resize):     *)
(* their values at the probe are inputs (env).                             *)
(*                                                                         *)
(* A pixel is [c, a]: one colour channel (the three are treated alike) and *)
(* alpha, both 0..255.  Strings of the interface are transliterated:       *)
(*   position  "bottom_right" "bottom_left" "top_left" "top_right"         *)
(*   watermark position  "below" "above" "left" "right"                    *)
(***************************************************************************)
EXTENDS Integers, Sequences, FiniteSets, TLC

\* ---------------------------------------------------------------- bounds
MaxDim == 2
MaxText == 1
MaxOff == 1
MaxWm == 2
MaxSpacing == 1
MaxFiles == 3
MaxEdits == 2
MaxCalls == 3

VARIABLES
    inp,            \* inputs of the engine call under study (render specification)
    ret,            \* what that call returned
    app,            \* WatermarkApp: "running" | "crashed" (unhandled exception in a slot)
    image_paths,    \* WatermarkApp.image_paths
    original_image, \* WatermarkApp.original_image: None or a loaded image
    font_path,      \* WatermarkApp.font_path: "None" or a font file
    watermark_image,\* WatermarkApp.watermark_image: None or an RGBA image
    fields,         \* contents of the QLineEdit / QCheckBox / QComboBox widgets
    processor,      \* WatermarkApp.processor: None or a WatermarkProcessor
    edits,          \* how many times the user has changed a widget
    last,           \* the last handler that ran, and how it ended
    calls           \* the process calls one caller has made so far, in order

vars == <<inp, ret, app, image_paths, original_image, font_path, watermark_image, fields, processor, edits, last, calls>>

appVars == <<app, image_paths, original_image, font_path, watermark_image, fields, processor, edits, last, calls>>

\* ------------------------------------------------------- Python and Pillow
Min(a, b) == IF a < b THEN a ELSE b
Max(a, b) == IF a > b THEN a ELSE b

\* a // b on ints, b > 0 (floor)
FloorDivRounds(a, b) == (2 * a + b) \div (2 * b)
FloorDivCeils(a, b) == 0 - ((0 - a) \div b)
FloorDiv(a, b) == a \div b

\* int(x) of the float computed for num/den >= 0.  The exact quotient is floored;
\* when it is a whole number the float product may fall just below it
\* (100 * (29 / 100.0) is 28.999999999999996), which int() truncates to one less:
\* slack (0 or 1) is that outcome.
FloatInt(num, den, slack) ==
    IF num % den = 0 /\ num > 0 THEN (num \div den) - slack ELSE num \div den

\* CLIP8: a value stored into an 8-bit channel
Clip8(v) == Max(0, Min(255, v))

\* round(num/den), den odd, so no tie arises (Image.point rounds a float table)
RoundDiv(num, den) == (2 * num + den) \div (2 * den)

\* ImagingUtils.h DIV255 and BLEND8
DIV255(a) == LET t == a + 128 IN ((t \div 256) + t) \div 256
BLEND8(mask, in1, in2) == DIV255(in1 * (255 - mask) + in2 * mask)

\* AlphaComposite.c SHIFTFORDIV255
SHIFTFORDIV255(a) == ((a \div 256) + a) \div 256

\* Image.alpha_composite(dst, src) at one pixel
AlphaCompositeReplaces(dst, src) == src
AlphaComposite(dst, src) ==
    IF src.a = 0 THEN dst
    ELSE LET blend == dst.a * (255 - src.a)
             outa255 == src.a * 255 + blend
             coef1 == (src.a * 255 * 255 * 128) \div outa255
             coef2 == 255 * 128 - coef1
             tmpc == src.c * coef1 + dst.c * coef2
         IN  [c |-> SHIFTFORDIV255(tmpc + 128 * 128) \div 128,
              a |-> SHIFTFORDIV255(outa255 + 128)]

\* ImageDraw.text with fill ink on an RGBA image, at a pixel of glyph coverage cov
\* (fill_mask_L: the colour channels take the ink whole where nothing lies below)
DrawText(out, ink, cov) ==
    LET channel_mask == IF cov # 0 /\ out.a = 0 THEN 255 ELSE cov
    IN  [c |-> BLEND8(channel_mask, out.c, ink.c),
         a |-> BLEND8(cov, out.a, ink.a)]

\* Image.paste(im, box, mask) at a pixel inside the box: every band, alpha too,
\* is blended by the mask
Paste(out, in, mask) ==
    [c |-> BLEND8(mask, out.c, in.c), a |-> BLEND8(mask, out.a, in.a)]

\* ImageChops.subtract(a, b): clipped difference
ChopsSubtractKeepsGlyph(a, b) == a
ChopsSubtract(a, b) == Clip8(a - b)

\* dict.get(key, default); a dict is a record with the set of its keys in .has
Get(d, key, default) == IF key \in d.has THEN d[key] ELSE default

\* ---------------------------------------------------- library values (env)
\* draw.textbbox((0, 0), text, font): width and height; empty text measures 0 x 0
TextBBox(text, env) == IF text = "" THEN <<0, 0>> ELSE <<env.tw, env.th>>
\* glyph coverage of the probe pixel; nothing is drawn for empty text
Coverage(text, env) == IF text = "" THEN 0 ELSE env.cov
\* the blurred mask at the probe; the blur of an all-zero mask is zero
Blurred(text, env) == IF text = "" THEN 0 ELSE env.blur
\* ImageFont.truetype(font_path, font_size) loads
FontLoads(fp, font_size) == fp # "None" /\ font_size > 0

Transparent == [c |-> 255, a |-> 0]
NoPos == <<0, 0>>

\* ------------------------------------------------ WatermarkProcessor
TextPosSwapsCorners(position, W, H, tw, th, offset_x, offset_y) ==
    CASE position = "bottom_left" -> <<W - tw - offset_x, H - th - offset_y>>
      [] position = "top_left" -> <<offset_x, offset_y>>
      [] position = "top_right" -> <<W - tw - offset_x, offset_y>>
      [] OTHER -> <<offset_x, H - th - offset_y>>
\* positions.get(position, <bottom-right>)
TextPos(position, W, H, tw, th, offset_x, offset_y) ==
    CASE position = "bottom_left" -> <<offset_x, H - th - offset_y>>
      [] position = "top_left" -> <<offset_x, offset_y>>
      [] position = "top_right" -> <<W - tw - offset_x, offset_y>>
      [] OTHER -> <<W - tw - offset_x, H - th - offset_y>>

\* the shadow layer's alpha at the probe (lines 180-192)
ShadowAlpha(text, opacity, shadow_intensity, env) ==
    LET mask == Coverage(text, env)
        blurred == Blurred(text, env)
        shadow_mask == ChopsSubtract(blurred, mask)
        desired_shadow_alpha == FloorDiv(opacity * shadow_intensity, 100)
    IN  Clip8(RoundDiv(shadow_mask * desired_shadow_alpha, 255))

apply_text_watermark(self, image, text, font_size, position, opacity, offset_x, offset_y, shadow, shadow_width, shadow_intensity, env) ==
    IF ~FontLoads(self.font_path, font_size)
    THEN [status |-> "raised", overlay |-> Transparent, text_pos |-> NoPos,
          text_size |-> NoPos, shadowed |-> FALSE, shadow_alpha |-> 0]
    ELSE
    LET overlay == Transparent
        bbox == TextBBox(text, env)
        text_width == bbox[1]
        text_height == bbox[2]
        text_pos == TextPos(position, image.width, image.height, text_width,
                            text_height, offset_x, offset_y)
        shadowed == shadow /\ shadow_width > 0
        shadow_alpha == IF shadowed
                        THEN ShadowAlpha(text, opacity, shadow_intensity, env)
                        ELSE 0
        shadow_layer == [c |-> 0, a |-> shadow_alpha]
        overlay1 == IF shadowed THEN AlphaComposite(overlay, shadow_layer) ELSE overlay
        overlay2 == DrawText(overlay1, [c |-> 255, a |-> Clip8(opacity)],
                             Coverage(text, env))
    IN  [status |-> "ok", overlay |-> overlay2, text_pos |-> text_pos,
         text_size |-> <<text_width, text_height>>, shadowed |-> shadowed,
         shadow_alpha |-> shadow_alpha]

\* wm_opacity * a // 255 through Image.eval (line 232)
ScaleAlphaReplaces(wm_opacity, a) == Clip8(wm_opacity)
ScaleAlpha(wm_opacity, a) == Clip8(FloorDiv(wm_opacity * a, 255))

WmPosIgnoresText(watermark_pos, text_x, text_y, text_width, text_height, wm_w, wm_h, spacing) ==
    CASE watermark_pos = "below" -> <<(0 - wm_w) \div 2, text_height + spacing>>
      [] watermark_pos = "left" -> <<0 - wm_w - spacing, (0 - wm_h) \div 2>>
      [] watermark_pos = "right" -> <<text_width + spacing, (0 - wm_h) \div 2>>
      [] OTHER -> <<(0 - wm_w) \div 2, 0 - wm_h - spacing>>
WmPosTruncates(watermark_pos, text_x, text_y, text_width, text_height, wm_w, wm_h, spacing) ==
    CASE watermark_pos = "below" ->
             <<text_x + text_width - (wm_w \div 2) - (text_width \div 2), text_y + text_height + spacing>>
      [] watermark_pos = "left" ->
             <<text_x - wm_w - spacing, text_y + text_height - (wm_h \div 2) - (text_height \div 2)>>
      [] watermark_pos = "right" ->
             <<text_x + text_width + spacing, text_y + text_height - (wm_h \div 2) - (text_height \div 2)>>
      [] OTHER ->
             <<text_x + text_width - (wm_w \div 2) - (text_width \div 2), text_y - wm_h - spacing>>
\* wm_positions.get(watermark_pos, <above>) (lines 240-246)
WmPos(watermark_pos, text_x, text_y, text_width, text_height, wm_w, wm_h, spacing) ==
    CASE watermark_pos = "below" ->
             <<text_x + FloorDiv(text_width - wm_w, 2), text_y + text_height + spacing>>
      [] watermark_pos = "left" ->
             <<text_x - wm_w - spacing, text_y + FloorDiv(text_height - wm_h, 2)>>
      [] watermark_pos = "right" ->
             <<text_x + text_width + spacing, text_y + FloorDiv(text_height - wm_h, 2)>>
      [] OTHER ->
             <<text_x + FloorDiv(text_width - wm_w, 2), text_y - wm_h - spacing>>

\* overlay: [width, height, px]; watermark: [width, height]
apply_image_watermark(overlay, watermark, text_position, text_size, image_params, env) ==
    LET size_percent == Get(image_params, "size", 10)
        wm_opacity == FloorDiv(Get(image_params, "opacity", 80) * 255, 100)
        spacing == Get(image_params, "spacing", 5)
        watermark_pos == Get(image_params, "position", "above")
        short_side == Min(overlay.width, overlay.height)
        wm_original_short_side == Min(watermark.width, watermark.height)
        \* int(wm_original_w * (short_side * (size_percent / 100.0) / wm_short))
        new_w == FloatInt(watermark.width * short_side * size_percent,
                          100 * wm_original_short_side, env.slack_w)
        new_h == FloatInt(watermark.height * short_side * size_percent,
                          100 * wm_original_short_side, env.slack_h)
    IN  IF new_w <= 0 \/ new_h <= 0
        THEN \* Image.resize refuses an empty size
             [status |-> "raised", overlay |-> overlay, wm_size |-> NoPos,
              wm_alpha |-> 0, wm_pos |-> NoPos, text_position |-> text_position,
              text_size |-> text_size]
        ELSE
        LET alpha == ScaleAlpha(wm_opacity, env.wm_a)
            wm_px == [c |-> env.wm_c, a |-> alpha]
            wm_pos == WmPos(watermark_pos, text_position[1], text_position[2],
                            text_size[1], text_size[2], new_w, new_h, spacing)
            px == IF env.inbox THEN Paste(overlay.px, wm_px, alpha) ELSE overlay.px
        IN  [status |-> "ok", overlay |-> [overlay EXCEPT !.px = px],
             wm_size |-> <<new_w, new_h>>, wm_alpha |-> alpha, wm_pos |-> wm_pos,
             text_position |-> text_position, text_size |-> text_size]

NoText == [status |-> "none", overlay |-> Transparent, text_pos |-> NoPos, text_size |-> NoPos, shadowed |-> FALSE, shadow_alpha |-> 0]
NoWm == [status |-> "none", overlay |-> [width |-> 0, height |-> 0, px |-> Transparent], wm_size |-> NoPos, wm_alpha |-> 0, wm_pos |-> NoPos, text_position |-> NoPos, text_size |-> NoPos]

\* the test of line 285: a PIL image is truthy, None and an empty dict are not
WmRequestedAlways(image_watermark, image_params) == TRUE
WmRequested(image_watermark, image_params) ==
    ~image_watermark.none /\ ~image_params.none /\ image_params.has # {}

\* WatermarkProcessor.process.  Returns every intermediate value beside the
\* final image: .final is the returned image's probe pixel.
process(self, text, text_params, image_watermark, image_params, env) ==
    LET base_px == [c |-> self.original_image.c, a |-> 255]
        bg_width == self.original_image.width
        bg_height == self.original_image.height
        base_image == [width |-> bg_width, height |-> bg_height, px |-> base_px]
        overlay == Transparent
        short_side == Min(bg_width, bg_height)
        font_size_percent == Get(text_params, "font_size", 10)
        font_size_px == FloatInt(short_side * font_size_percent, 100, env.slack_f)
        opacity == FloorDiv(Get(text_params, "opacity", 50) * 255, 100)
        t == apply_text_watermark(self, base_image, text, font_size_px,
                 Get(text_params, "position", "bottom_right"), opacity,
                 Get(text_params, "offset_x", 120), Get(text_params, "offset_y", 120),
                 Get(text_params, "shadow", FALSE), Get(text_params, "shadow_width", 0),
                 Get(text_params, "shadow_intensity", 50), env)
        overlay1 == AlphaComposite(overlay, t.overlay)
        wanted == WmRequested(image_watermark, image_params)
        w == IF t.status = "ok" /\ wanted
             THEN apply_image_watermark(
                      [width |-> bg_width, height |-> bg_height, px |-> overlay1],
                      image_watermark, t.text_pos, t.text_size, image_params, env)
             ELSE NoWm
        overlay2 == IF w.status = "ok" THEN w.overlay.px ELSE overlay1
        ok == t.status = "ok" /\ w.status # "raised"
    IN  [status |-> IF ok THEN "ok" ELSE "raised",
         font_size_px |-> font_size_px, opacity |-> opacity, base |-> base_px,
         text |-> t, wm_applied |-> (w.status = "ok"), wm |-> w,
         overlay |-> overlay2,
         final |-> IF ok THEN AlphaComposite(base_px, overlay2) ELSE base_px]

\* ------------------------------------------------ inputs of an engine call
Positions == {"bottom_right", "bottom_left", "top_left", "top_right", "elsewhere"}
WmPositions == {"below", "above", "left", "right", "elsewhere"}
Texts == {"", "TEST"}
Dims == {100 * k : k \in 1..MaxDim} \cup {500, 600}
TextSizes == (0..MaxText) \cup {20, 40}
Offsets == (0..MaxOff) \cup {50, 80}
WmDims == (1..MaxWm) \cup {100}
Spacings == (0..MaxSpacing) \cup {5}
Percents == 0..100
Levels == {0, 1, 127, 128, 254, 255}
TextKeys == {"font_size", "position", "opacity", "offset_x", "offset_y", "shadow", "shadow_width", "shadow_intensity"}
ImageKeys == {"position", "size", "opacity", "spacing"}

\* the records update_watermark, export_image and batch_export_images build, with
\* the widgets' initial contents (initUI)
DefaultTextParams == [has |-> TextKeys, font_size |-> 10, position |-> "bottom_left", opacity |-> 50, offset_x |-> 50, offset_y |-> 80, shadow |-> FALSE, shadow_width |-> 5, shadow_intensity |-> 50]
DefaultImageParams == [none |-> FALSE, has |-> ImageKeys, position |-> "above", size |-> 10, opacity |-> 80, spacing |-> 5]
NoneParams == [DefaultImageParams EXCEPT !.none = TRUE, !.has = {}]
NoneImage == [none |-> TRUE, width |-> 0, height |-> 0]

Inp0 ==
    [self |-> [original_image |-> [width |-> 500, height |-> 600, c |-> 100], font_path |-> "font"],
     text |-> "TEST",
     text_params |-> DefaultTextParams,
     image_watermark |-> [none |-> FALSE, width |-> 100, height |-> 100],
     image_params |-> DefaultImageParams,
     env |-> [tw |-> 40, th |-> 20, cov |-> 255, blur |-> 255, wm_c |-> 0, wm_a |-> 255,
              inbox |-> TRUE, slack_w |-> 0, slack_h |-> 0, slack_f |-> 0],
     font_size |-> 12, alpha |-> 127, text_position |-> <<50, 500>>]

\* text geometry: image size, measured text size, offsets, corner
TextInputs ==
    \E W \in Dims, H \in Dims, tw \in TextSizes, th \in TextSizes, tx \in Texts, ox \in Offsets, oy \in Offsets, pos \in Positions :
        inp = [Inp0 EXCEPT !.self.original_image.width = W, !.self.original_image.height = H,
                   !.env.tw = tw, !.env.th = th, !.text = tx,
                   !.text_params.offset_x = ox, !.text_params.offset_y = oy,
                   !.text_params.position = pos]

\* watermark geometry: its size, scale, spacing, side, the text box it hangs on
ImageInputs ==
    \E w \in WmDims, h \in WmDims, sz \in {1, 10, 50, 100}, sp \in Spacings, wpos \in WmPositions, tw \in TextSizes, th \in TextSizes, tp \in {<<50, 500>>, <<0, 0>>} :
        inp = [Inp0 EXCEPT !.image_watermark.width = w, !.image_watermark.height = h,
                   !.image_params.size = sz, !.image_params.spacing = sp,
                   !.image_params.position = wpos, !.env.tw = tw, !.env.th = th,
                   !.text_position = tp]

\* which watermarks a process call is given
ParamKinds ==
    {NoneParams, [DefaultImageParams EXCEPT !.has = {}],
     [DefaultImageParams EXCEPT !.has = {"size"}], DefaultImageParams}
ProcessInputs ==
    \E tx \in Texts, pos \in Positions, wm \in {NoneImage, Inp0.image_watermark}, ip \in ParamKinds, wpos \in WmPositions, d \in {<<500, 600>>, <<300, 200>>}, tw \in 0..MaxText, th \in 0..MaxText :
        inp = [Inp0 EXCEPT !.text = tx, !.text_params.position = pos,
                   !.image_watermark = wm,
                   !.image_params = [ip EXCEPT !.position = wpos],
                   !.self.original_image.width = d[1], !.self.original_image.height = d[2],
                   !.env.tw = tw, !.env.th = th]

\* glyph opacity and shadow at the probe pixel
OpacityInputs ==
    \E p \in Percents, cov \in Levels, blur \in Levels, sh \in BOOLEAN, tx \in Texts :
        inp = [Inp0 EXCEPT !.text_params.opacity = p, !.alpha = FloorDiv(p * 255, 100),
                   !.env.cov = cov, !.env.blur = blur,
                   !.text_params.shadow = sh, !.text = tx]
ShadowInputs ==
    \E sw \in {0, 1, 5}, si \in Percents, p \in {0, 1, 50, 100}, cov \in Levels, blur \in Levels :
        inp = [Inp0 EXCEPT !.text_params.shadow = TRUE, !.text_params.shadow_width = sw,
                   !.text_params.shadow_intensity = si, !.text_params.opacity = p,
                   !.alpha = FloorDiv(p * 255, 100), !.env.cov = cov, !.env.blur = blur]

\* no watermark at all: empty text, no image, every text configuration
EmptyInputs ==
    \E c \in Levels, pos \in Positions, ox \in Offsets, p \in {0, 50, 100}, fs \in {1, 10, 100}, sh \in BOOLEAN, sw \in {0, 5}, si \in {0, 50, 100}, cov \in {0, 255} :
        inp = [Inp0 EXCEPT !.text = "", !.image_watermark = NoneImage, !.image_params = NoneParams,
                   !.self.original_image.c = c, !.text_params.position = pos,
                   !.text_params.offset_x = ox, !.text_params.opacity = p,
                   !.text_params.font_size = fs, !.text_params.shadow = sh,
                   !.text_params.shadow_width = sw, !.text_params.shadow_intensity = si,
                   !.env.cov = cov, !.env.blur = cov]

\* the watermark's own alpha and its configured opacity
AlphaInputs ==
    \E a \in 0..255, p \in Percents, b \in BOOLEAN :
        inp = [Inp0 EXCEPT !.env.wm_a = a, !.image_params.opacity = p, !.env.inbox = b]

\* what makes a call raise: no font, a font size of 0, a watermark resized to nothing
FailureInputs ==
    \E fp \in {"None", "font"}, fs \in {0, 1, 10, 100}, W \in 1..MaxDim, H \in (1..MaxDim) \cup {100}, sz \in {1, 100}, sf \in 0..1, sw \in 0..1 :
        inp = [Inp0 EXCEPT !.self.font_path = fp, !.text_params.font_size = fs,
                   !.self.original_image.width = W, !.self.original_image.height = H,
                   !.image_params.size = sz, !.env.slack_f = sf, !.env.slack_w = sw,
                   !.env.slack_h = sw, !.font_size = fs]

RenderInputs ==
    \/ TextInputs \/ ImageInputs \/ ProcessInputs \/ OpacityInputs
    \/ ShadowInputs \/ EmptyInputs \/ AlphaInputs \/ FailureInputs

NoProc == [status |-> "none", font_size_px |-> 0, opacity |-> 0, base |-> Transparent, text |-> NoText, wm_applied |-> FALSE, wm |-> NoWm, overlay |-> Transparent, final |-> Transparent]
RetNone == [fn |-> "none", val |-> NoProc]

\* ------------------------------------------------------------ WatermarkApp
\* A QLineEdit's text is <<>> when empty and <<n>> when it reads as the number n.
NoImage == [none |-> TRUE, file |-> 0, width |-> 0, height |-> 0, c |-> 0]
\* Image.open(path) converted to a BGR array: every file is a 500 x 600 picture
Opened(file) == [none |-> FALSE, file |-> file, width |-> 500, height |-> 600, c |-> 100]
NoProcessor == [none |-> TRUE, original_image |-> NoImage, font_path |-> "None"]
\* WatermarkProcessor(original_image, font_path)
WatermarkProcessor(image, fp) == [none |-> FALSE, original_image |-> image, font_path |-> fp]

\* os.path.splitext(os.path.basename(path))[1] of the files the dialog offers
FileExt(file) ==
    CASE file % 4 = 1 -> ".jpg" [] file % 4 = 2 -> ".png" [] file % 4 = 3 -> ".JPEG" [] OTHER -> ".bmp"

\* initUI: the widgets' initial contents
InitFields ==
    [text |-> "TEST", position |-> "bottom_right", opacity |-> <<50>>, font_size |-> <<10>>,
     offset_x |-> <<120>>, offset_y |-> <<120>>, spacing |-> <<5>>, shadow |-> FALSE,
     shadow_width |-> <<5>>, shadow_intensity |-> <<50>>, wm_position |-> "above",
     wm_size |-> <<10>>, wm_opacity |-> <<80>>]

\* What a user can leave in each validated QLineEdit: QIntValidator(b, t) lets the
\* line edit hold every Intermediate text, which is the empty text and every
\* number with no more digits than t, in range or not.
Typeable ==
    [opacity |-> {<<>>, <<150>>}, font_size |-> {<<>>, <<0>>}, offset_x |-> {<<>>},
     shadow_width |-> {<<>>}, shadow_intensity |-> {<<>>},
     wm_size |-> {<<>>}, wm_opacity |-> {<<>>}]
NumberFields == DOMAIN Typeable

\* int(text): raises ValueError on the empty text
IsInt(t) == t # <<>>
\* int(text or default)
IntOr(t, default) == IF t = <<>> THEN default ELSE t[1]

\* the fields a handler reads with a bare int(...): export_image reads
\* shadow_width so (line 705), the other two read it with `or "0"`
BareInts(op) ==
    {"font_size", "opacity", "offset_x", "offset_y", "wm_size", "wm_opacity", "spacing"}
    \cup (IF op = "export_image" THEN {"shadow_width"} ELSE {})
ParamsParseAlways(op, f) == TRUE
ParamsParse(op, f) == \A k \in BareInts(op) : IsInt(f[k])

\* text_params and image_params as the three handlers build them
TextParams(f) ==
    [has |-> TextKeys, font_size |-> IntOr(f.font_size, 0), position |-> f.position,
     opacity |-> IntOr(f.opacity, 0), offset_x |-> IntOr(f.offset_x, 0),
     offset_y |-> IntOr(f.offset_y, 0), shadow |-> f.shadow,
     shadow_width |-> IntOr(f.shadow_width, 0),
     shadow_intensity |-> IntOr(f.shadow_intensity, 50)]
ImageParams(f) ==
    [none |-> FALSE, has |-> ImageKeys, position |-> f.wm_position,
     size |-> IntOr(f.wm_size, 0), opacity |-> IntOr(f.wm_opacity, 0),
     spacing |-> IntOr(f.spacing, 0)]

\* image_params if self.watermark_image else None
ParamsIf(wm, f) == IF wm.none THEN NoneParams ELSE ImageParams(f)

\* one process call of a handler: its arguments and how it ended
Render(proc, f, wm) ==
    LET tp == TextParams(f)
        ip == ParamsIf(wm, f)
        r == process(proc, f.text, tp, wm, ip, Inp0.env)
    IN  [file |-> proc.original_image.file, font_path |-> proc.font_path, text |-> f.text,
         text_params |-> tp, image_watermark |-> wm, image_params |-> ip,
         status |-> r.status]

\* What a handler did: .ran is whether it got past its early returns, .error the
\* exception it met ("none" if none), .caught whether the handler itself caught
\* it, .renders the process calls it made, .wrote the files it saved, .outcomes
\* what the file system did at each path it was to touch, .summary the count its
\* closing message printed (<<>> when it printed none), .settings what the batch
\* dialog handed back when it was accepted (<<>> when it was not)
Quiet(op) == [op |-> op, error |-> "none", caught |-> FALSE, ran |-> FALSE, renders |-> <<>>, wrote |-> <<>>, outcomes |-> <<>>, summary |-> <<>>, settings |-> <<>>]

\* the dialog of the handler `op` was accepted with `settings`
Asked(op, settings) == [Quiet(op) EXCEPT !.settings = <<settings>>]

\* the handler `op` made the process call r and nothing after it raised
Rendered(op, r) ==
    [Quiet(op) EXCEPT !.ran = TRUE, !.renders = <<r>>,
                      !.error = IF r.status = "ok" THEN "none" ELSE "RenderError"]

\* update_watermark (lines 653-679), as the handler `op` runs it
update_watermark(op, orig, proc, f, wm) ==
    IF orig.none \/ proc.none THEN Quiet(op)
    ELSE IF ~ParamsParse("update_watermark", f)
    THEN [Quiet(op) EXCEPT !.ran = TRUE, !.error = "ValueError"]
    ELSE Rendered(op, Render(proc, f, wm))

\* an exception that leaves a slot ends the application
After(l) == IF l.error = "none" \/ l.caught THEN "running" ELSE "crashed"

Formats == {"JPEG", "PNG"}
Qualities == {50, 95}
Outcomes == {"ok", "open_fails", "save_fails"}
\* What the file system does at each of n paths: the loop stops at the first
\* failure, so one failure at most is drawn and the paths after it would succeed.
OutcomesOf(n) ==
    { [i \in 1..n |-> IF i = k THEN o ELSE "ok"] : k \in 0..n, o \in Outcomes \ {"ok"} }

\* the file one save() call writes
Saved(path, format, quality, image) ==
    [path |-> path, format |-> format, quality |-> IF format = "JPEG" THEN quality ELSE 0,
     mode |-> IF format = "JPEG" THEN "RGB" ELSE "RGBA", image |-> image]

BatchFormatCaseSensitive(fmt, ext) ==
    IF fmt = "JPEG" \/ ext \in {".jpg", ".jpeg"} THEN "JPEG" ELSE "PNG"
\* lines 454-457: the encoder batch export picks for a file
Lower(ext) == CASE ext = ".JPEG" -> ".jpeg" [] ext = ".JPG" -> ".jpg" [] OTHER -> ext
BatchFormat(fmt, ext) ==
    IF fmt = "JPEG" \/ Lower(ext) \in {".jpg", ".jpeg"} THEN "JPEG" ELSE "PNG"

BatchStepNoWrite(path, outcome, settings, acc, r) == [acc EXCEPT !.renders = Append(@, r)]
\* lines 438-457: one file of the loop after it opened, r the process call made
\* on it
BatchStep(path, outcome, settings, acc, r) ==
    IF r.status # "ok" THEN [acc EXCEPT !.renders = Append(@, r), !.error = "RenderError"]
    ELSE IF outcome = "save_fails" THEN [acc EXCEPT !.renders = Append(@, r), !.error = "SaveError"]
    ELSE [acc EXCEPT !.renders = Append(@, r),
                     !.wrote = Append(@, Saved(<<settings.output_folder, path>>, BatchFormat(settings.format, FileExt(path)), settings.quality, r))]

\* The loop of batch_export_images (lines 436-457) from path i on.  Nothing in
\* it catches: the first open, render or save that raises ends the loop.
RECURSIVE BatchLoop(_, _, _, _, _, _, _, _)
BatchLoop(paths, i, outcomes, fp, f, wm, settings, acc) ==
    IF acc.error # "none" THEN acc
    ELSE IF i > Len(paths) THEN [acc EXCEPT !.summary = <<Len(paths)>>]
    ELSE IF outcomes[i] = "open_fails" THEN [acc EXCEPT !.error = "OpenError"]
    ELSE BatchLoop(paths, i + 1, outcomes, fp, f, wm, settings,
                   BatchStep(paths[i], outcomes[i], settings, acc,
                             Render(WatermarkProcessor(Opened(paths[i]), fp), f, wm)))

\* batch_export_images (lines 399-459)
batch_export_images(paths, fp, f, wm, accepted, settings, outcomes) ==
    LET op == "batch_export_images"
    IN  IF paths = <<>> \/ ~accepted THEN Quiet(op)
        ELSE IF settings.output_folder = "" THEN Asked(op, settings)
        ELSE IF ~ParamsParse(op, f)
        THEN [Asked(op, settings) EXCEPT !.ran = TRUE, !.error = "ValueError"]
        ELSE BatchLoop(paths, 1, outcomes, fp, f, wm, settings,
                       [Asked(op, settings) EXCEPT !.ran = TRUE, !.outcomes = outcomes])

\* lines 714-727 of export_image: the process call r, then the guarded save
ExportStep(settings, outcome, r) ==
    IF r.status # "ok"
    THEN [Rendered("export_image", r) EXCEPT !.outcomes = <<outcome>>]
    ELSE IF outcome = "save_fails"
    THEN [Rendered("export_image", r) EXCEPT !.outcomes = <<outcome>>, !.error = "SaveError", !.caught = TRUE]
    ELSE [Rendered("export_image", r) EXCEPT !.outcomes = <<outcome>>,
              !.wrote = <<Saved(<<settings.output_folder, 0>>, settings.format, settings.quality, r)>>]

\* export_image (lines 681-727)
export_image(orig, proc, f, wm, accepted, settings, outcome) ==
    LET op == "export_image"
    IN  IF orig.none \/ proc.none \/ ~accepted THEN Quiet(op)
        ELSE IF ~ParamsParse(op, f)
        THEN [Quiet(op) EXCEPT !.ran = TRUE, !.error = "ValueError"]
        ELSE ExportStep(settings, outcome, Render(proc, f, wm))

\* ------------------------------------------------------------------ state
AppInit ==
    /\ app = "running"
    /\ image_paths = <<>>
    /\ original_image = NoImage
    /\ font_path \in {"None", "font"}        \* get_chinese_font()
    /\ watermark_image = NoneImage
    /\ fields = InitFields
    /\ processor = NoProcessor
    /\ edits = 0
    /\ last = Quiet("init")
    /\ calls = <<>>

\* the handler ran to `l`
Ends(l) ==
    /\ last' = l
    /\ app' = After(l)

\* the handler `op` ends in update_watermark, run on the state it has built
Preview(op, orig, proc, f, wm) == Ends(update_watermark(op, orig, proc, f, wm))

\* textChanged of a validated QLineEdit -> update_watermark
EditNumber(k, v) ==
    /\ app = "running" /\ edits < MaxEdits
    /\ v # fields[k]
    /\ fields' = [fields EXCEPT ![k] = v]
    /\ edits' = edits + 1
    /\ Preview("edit", original_image, processor, [fields EXCEPT ![k] = v], watermark_image)
    /\ UNCHANGED <<inp, ret, calls, image_paths, original_image, font_path, watermark_image, processor>>

\* textChanged of the text input, the combo boxes' currentIndexChanged, the
\* check box's stateChanged -> update_watermark
EditChoice(k, v) ==
    /\ app = "running" /\ edits < MaxEdits
    /\ v # fields[k]
    /\ fields' = [fields EXCEPT ![k] = v]
    /\ edits' = edits + 1
    /\ Preview("edit", original_image, processor, [fields EXCEPT ![k] = v], watermark_image)
    /\ UNCHANGED <<inp, ret, calls, image_paths, original_image, font_path, watermark_image, processor>>

\* load_images and load_image (lines 619-631): the dialog returns n files; the
\* first is missing, unreadable, or opens
LoadImages(n, first) ==
    /\ app = "running"
    /\ image_paths' = [i \in 1..n |-> i]
    /\ CASE first = "missing" ->
              /\ Ends(Quiet("load_images"))
              /\ UNCHANGED <<original_image, processor>>
         [] first = "corrupt" ->
              /\ Ends([Quiet("load_images") EXCEPT !.ran = TRUE, !.error = "OpenError"])
              /\ UNCHANGED <<original_image, processor>>
         [] OTHER ->
              /\ original_image' = Opened(1)
              /\ processor' = WatermarkProcessor(Opened(1), font_path)
              /\ Preview("load_images", Opened(1), WatermarkProcessor(Opened(1), font_path), fields, watermark_image)
    /\ UNCHANGED <<inp, ret, calls, font_path, watermark_image, fields, edits>>

\* load_watermark_image (lines 633-637)
LoadWatermarkImage(opens) ==
    /\ app = "running"
    /\ IF opens
       THEN /\ watermark_image' = [none |-> FALSE, width |-> 100, height |-> 100]
            /\ Preview("load_watermark_image", original_image, processor, fields, [none |-> FALSE, width |-> 100, height |-> 100])
       ELSE /\ Ends([Quiet("load_watermark_image") EXCEPT !.ran = TRUE, !.error = "OpenError"])
            /\ UNCHANGED watermark_image
    /\ UNCHANGED <<inp, ret, calls, image_paths, original_image, font_path, fields, processor, edits>>

\* select_font (lines 601-610), the dialog accepted with a font chosen
SelectFont ==
    /\ app = "running"
    /\ font_path' = "font"
    /\ processor' = IF processor.none THEN processor ELSE [processor EXCEPT !.font_path = "font"]
    /\ Preview("select_font", original_image, IF processor.none THEN processor ELSE [processor EXCEPT !.font_path = "font"], fields, watermark_image)
    /\ UNCHANGED <<inp, ret, calls, image_paths, original_image, watermark_image, fields, edits>>

ExportImage(accepted, settings, outcome) ==
    /\ app = "running"
    /\ Ends(export_image(original_image, processor, fields, watermark_image, accepted, settings, outcome))
    /\ UNCHANGED <<inp, ret, calls, image_paths, original_image, font_path, watermark_image, fields, processor, edits>>

BatchExportImages(accepted, settings, outcomes) ==
    /\ app = "running"
    /\ Ends(batch_export_images(image_paths, font_path, fields, watermark_image, accepted, settings, outcomes))
    /\ UNCHANGED <<inp, ret, calls, image_paths, original_image, font_path, watermark_image, fields, processor, edits>>

\* get_settings of the two dialogs: the quality matters to JPEG only, and the
\* folder may be left empty
NoSettings == [format |-> "JPEG", output_folder |-> "", quality |-> 95]
Settings ==
    {[format |-> "JPEG", output_folder |-> "out", quality |-> q] : q \in Qualities}
    \cup {[format |-> "PNG", output_folder |-> "out", quality |-> 95], NoSettings}

\* a rejected dialog hands back no settings
SettingsOf(accepted) == IF accepted THEN Settings ELSE {NoSettings}

\* the values the text box, the two combo boxes and the check box are set to
Choices ==
    [text |-> Texts, position |-> {"bottom_right", "top_left"},
     wm_position |-> {"above", "left"}, shadow |-> BOOLEAN]

Init == AppInit /\ inp = Inp0 /\ ret = RetNone

Next ==
    \/ \E k \in NumberFields : \E v \in Typeable[k] : EditNumber(k, v)
    \/ \E k \in DOMAIN Choices : \E v \in Choices[k] : EditChoice(k, v)
    \/ \E n \in 1..MaxFiles, first \in {"ok", "missing", "corrupt"} : LoadImages(n, first)
    \/ \E opens \in BOOLEAN : LoadWatermarkImage(opens)
    \/ SelectFont
    \/ \E accepted \in BOOLEAN : \E st \in SettingsOf(accepted), outcome \in {"ok", "save_fails"} :
           ExportImage(accepted, st, outcome)
    \/ \E accepted \in BOOLEAN : \E st \in SettingsOf(accepted) :
           \E outcomes \in OutcomesOf(Len(image_paths)) :
               BatchExportImages(accepted, st, outcomes)

Spec == Init /\ [][Next]_vars

\* --------------------------------------------------- the engine, called alone
RenderInit == AppInit /\ font_path = "font" /\ RenderInputs /\ ret = RetNone

\* apply_text_watermark called on its own
CallApplyText ==
    /\ ret.fn = "none"
    /\ LET tp == inp.text_params
           image == [width |-> inp.self.original_image.width, height |-> inp.self.original_image.height, px |-> Transparent]
           t == apply_text_watermark(inp.self, image, inp.text, inp.font_size, tp.position,
                    inp.alpha, tp.offset_x, tp.offset_y, tp.shadow, tp.shadow_width,
                    tp.shadow_intensity, inp.env)
       IN  ret' = [fn |-> "apply_text_watermark",
                   val |-> [NoProc EXCEPT !.status = t.status, !.text = t, !.overlay = t.overlay]]
    /\ UNCHANGED <<inp, appVars>>

\* apply_image_watermark called on its own, on an empty overlay
CallApplyImage ==
    /\ ret.fn = "none"
    /\ ~inp.image_watermark.none /\ ~inp.image_params.none
    /\ LET overlay == [width |-> inp.self.original_image.width, height |-> inp.self.original_image.height, px |-> Transparent]
           w == apply_image_watermark(overlay, inp.image_watermark, inp.text_position,
                    <<inp.env.tw, inp.env.th>>, inp.image_params, inp.env)
       IN  ret' = [fn |-> "apply_image_watermark",
                   val |-> [NoProc EXCEPT !.status = w.status, !.wm = w,
                                          !.wm_applied = (w.status = "ok"),
                                          !.overlay = w.overlay.px]]
    /\ UNCHANGED <<inp, appVars>>

CallProcess ==
    /\ ret.fn = "none"
    /\ ret' = [fn |-> "process",
               val |-> process(inp.self, inp.text, inp.text_params, inp.image_watermark,
                               inp.image_params, inp.env)]
    /\ UNCHANGED <<inp, appVars>>

RenderNext == CallApplyText \/ CallApplyImage \/ CallProcess

RenderSpec == RenderInit /\ [][RenderNext]_vars

\* ------------------------------------ one caller, several process calls
\* `c = d.copy(); c[k] = v`: the dict d as its owner sees it afterwards, when
\* `written` is what c then holds (line 266; the write is line 267)
WriteToAlias(d, written) == written
WriteToCopy(d, written) == d

\* What a process call that returned r leaves behind in the objects it was
\* handed.  Lines 251-289 assign no attribute of self; text_params is copied
\* before font_size is overwritten; image_params is only read with .get; the
\* watermark is only resized and converted, which return new images.
ProcessLeaves(self, text_params, image_watermark, image_params, r) ==
    [self |-> self,
     text_params |-> WriteToCopy(text_params,
                         [text_params EXCEPT !.font_size = r.font_size_px,
                                             !.has = @ \cup {"font_size"}]),
     image_watermark |-> image_watermark,
     image_params |-> image_params]

\* the objects a call is handed
Handed(i) ==
    [self |-> i.self, text |-> i.text, text_params |-> i.text_params,
     image_watermark |-> i.image_watermark, image_params |-> i.image_params]

\* the arguments the caller makes up for a call
SessionArgs(i) ==
    \E tx \in Texts, sh \in BOOLEAN, wm \in {NoneImage, Inp0.image_watermark}, ip \in {NoneParams, DefaultImageParams} :
        i = [Inp0 EXCEPT !.text = tx, !.text_params.shadow = sh, !.env.blur = 128,
                 !.env.cov = 200, !.image_watermark = wm, !.image_params = ip]

SessionInit == AppInit /\ font_path = "font" /\ SessionArgs(inp) /\ ret = RetNone

\* the entry of the log for a call on the objects `i` that returned r
Logged(i, r, after) ==
    [before |-> Handed(i), after |-> after, status |-> r.status, image |-> r.final]

\* the caller's objects after the call
HandedBack(i, after) ==
    [i EXCEPT !.self = after.self, !.text_params = after.text_params,
              !.image_watermark = after.image_watermark, !.image_params = after.image_params]

Returned(i, r) ==
    /\ ret' = [fn |-> "process", val |-> r]
    /\ calls' = Append(calls, Logged(i, r, ProcessLeaves(i.self, i.text_params, i.image_watermark, i.image_params, r)))
    /\ inp' = HandedBack(i, ProcessLeaves(i.self, i.text_params, i.image_watermark, i.image_params, r))

\* process called on the objects the caller holds
ProcessCall ==
    /\ Len(calls) < MaxCalls
    /\ Returned(inp, process(inp.self, inp.text, inp.text_params, inp.image_watermark, inp.image_params, inp.env))
    /\ UNCHANGED <<app, image_paths, original_image, font_path, watermark_image, fields, processor, edits, last>>

\* the caller makes up other arguments for its next call
NewArgs ==
    /\ Len(calls) < MaxCalls
    /\ SessionArgs(inp') /\ inp' # inp
    /\ UNCHANGED <<ret, appVars>>

SessionNext == ProcessCall \/ NewArgs

SessionSpec == SessionInit /\ [][SessionNext]_vars

\* ================================================================ claims
\* what the call under study was given and gave back
W_ == inp.self.original_image.width
H_ == inp.self.original_image.height
Measured == IF inp.text = "" THEN <<0, 0>> ELSE <<inp.env.tw, inp.env.th>>
TextRan == ret.fn \in {"apply_text_watermark", "process"} /\ ret.val.text.status = "ok"

\* the side and the spacing the call was asked for (absent keys: "above" and 5)
Side == IF "position" \in inp.image_params.has THEN inp.image_params.position ELSE "above"
Spacing == IF "spacing" \in inp.image_params.has THEN inp.image_params.spacing ELSE 5

\* 2 * h <= d <= 2 * h + 1: h is d / 2 as an integer pixel count
Halves(h, d) == 2 * h <= d /\ d <= 2 * h + 1

\* C1: apply_text_watermark returns, for each of the four corners, the anchor of
\* section 4.1 computed from the image size, the measured text size and the
\* offsets, and returns the measured size.
C1_CornerAnchors ==
    TextRan =>
        LET tw == Measured[1]
            th == Measured[2]
            ox == inp.text_params.offset_x
            oy == inp.text_params.offset_y
            pos == inp.text_params.position
            at == ret.val.text.text_pos
        IN  /\ ret.val.text.text_size = <<tw, th>>
            /\ pos = "bottom_right" => at = <<W_ - tw - ox, H_ - th - oy>>
            /\ pos = "bottom_left" => at = <<ox, H_ - th - oy>>
            /\ pos = "top_left" => at = <<ox, oy>>
            /\ pos = "top_right" => at = <<W_ - tw - ox, oy>>
C1_Witness ==
    /\ ret.fn = "apply_text_watermark" /\ ret.val.text.status = "ok"
    /\ inp.text_params.position = "bottom_right"
    /\ W_ = 500 /\ H_ = 600 /\ inp.text = "TEST"
    /\ ret.val.text.text_size = <<40, 20>>
    /\ inp.text_params.offset_x = 1 /\ inp.text_params.offset_y = 50
    /\ ret.val.text.text_pos = <<459, 530>>

\* C2: apply_image_watermark pastes the resized watermark below, above, left or
\* right of the text box it is given, centred on it along the other axis with
\* the halved term an integer; a 50x50 watermark above the box (50,500) of size
\* (40,20) with spacing 5 lands at (45,445).
C2_WatermarkPlacement ==
    (ret.fn = "apply_image_watermark" /\ ret.val.wm.status = "ok") =>
        LET tx == inp.text_position[1]
            ty == inp.text_position[2]
            tw == inp.env.tw
            th == inp.env.th
            ww == ret.val.wm.wm_size[1]
            wh == ret.val.wm.wm_size[2]
            sp == Spacing
            side == Side
            at == ret.val.wm.wm_pos
        IN  /\ side = "below" => Halves(at[1] - tx, tw - ww) /\ at[2] = ty + th + sp
            /\ side = "above" => Halves(at[1] - tx, tw - ww) /\ at[2] = ty - wh - sp
            /\ side = "left" => at[1] = tx - ww - sp /\ Halves(at[2] - ty, th - wh)
            /\ side = "right" => at[1] = tx + tw + sp /\ Halves(at[2] - ty, th - wh)
            /\ (side = "above" /\ <<ww, wh>> = <<50, 50>> /\ <<tx, ty>> = <<50, 500>>
                /\ <<tw, th>> = <<40, 20>> /\ sp = 5) => at = <<45, 445>>
C2_Witness ==
    /\ ret.fn = "apply_image_watermark" /\ ret.val.wm.status = "ok"
    /\ Side = "above" /\ Spacing = 5
    /\ inp.text_position = <<50, 500>> /\ inp.env.tw = 40 /\ inp.env.th = 20
    /\ ret.val.wm.wm_size = <<50, 50>>
    /\ ret.val.wm.wm_pos = <<45, 445>>

\* the glyph layer at a pixel the glyph covers fully, in a process call
GlyphCovered ==
    /\ ret.fn = "process" /\ ret.val.text.status = "ok"
    /\ inp.text # "" /\ inp.env.cov = 255
    /\ inp.text_params.opacity \in 0..100

\* C3 as stated: at fully covered glyph pixels the glyph layer's alpha is
\* round(opacity / 100 * 255), the nearest integer (either one on a tie).
C3_AlphaIsRounded ==
    GlyphCovered =>
        LET d == 100 * ret.val.text.overlay.a - 255 * inp.text_params.opacity
        IN  0 - 50 <= d /\ d <= 50
\* C3 as amended: at fully covered glyph pixels the glyph layer's alpha is
\* opacity * 255 / 100 rounded down.
C3_AlphaIsFloored ==
    GlyphCovered =>
        LET a == ret.val.text.overlay.a
            n == 255 * inp.text_params.opacity
        IN  100 * a <= n /\ n < 100 * (a + 1)
C3_Witness ==
    GlyphCovered /\ inp.text_params.opacity = 50 /\ ret.val.text.overlay.a = 127

\* C4: process with empty text and no image watermark composites an overlay of
\* alpha 0 and returns the base image converted to RGBA, whatever the text
\* configuration.
C4_NoWatermarkIsIdentity ==
    (ret.fn = "process" /\ ret.val.status = "ok" /\ inp.text = "" /\ inp.image_watermark.none) =>
        /\ ret.val.overlay.a = 0
        /\ ret.val.final = [c |-> inp.self.original_image.c, a |-> 255]
C4_Witness ==
    /\ ret.fn = "process" /\ ret.val.status = "ok" /\ inp.text = "" /\ inp.image_watermark.none
    /\ inp.text_params.shadow /\ inp.text_params.shadow_width = 5
    /\ inp.text_params.shadow_intensity = 50 /\ inp.text_params.opacity = 100
    /\ inp.text_params.position = "top_left" /\ inp.env.cov = 255
    /\ inp.self.original_image.c = 127
    /\ ret.val.final = [c |-> 127, a |-> 255]

\* C5: the shadow layer has alpha 0 wherever the unblurred glyph mask is 255.
C5_ShadowOutsideGlyph ==
    (TextRan /\ ret.val.text.shadowed /\ inp.text # "" /\ inp.env.cov = 255) =>
        ret.val.text.shadow_alpha = 0
\* a shadow that is there (alpha > 0 beside the glyph) and absent on the glyph
C5_Witness ==
    /\ TextRan /\ ret.val.text.shadowed /\ inp.text # "" /\ inp.env.cov = 255
    /\ inp.env.blur = 255 /\ inp.text_params.shadow_intensity = 100 /\ inp.alpha = 255
    /\ ret.val.text.shadow_alpha = 0

\* the watermark pixel handed to paste, its source alpha a and the opacity p
WmScaled ==
    /\ ret.fn \in {"apply_image_watermark", "process"} /\ ret.val.wm.status = "ok"
    /\ inp.image_params.opacity \in 0..100
WmA == inp.env.wm_a
WmP == IF "opacity" \in inp.image_params.has THEN inp.image_params.opacity ELSE 80

\* C9 as stated: the pasted watermark pixel's alpha is a * p / 100 (as an
\* integer: less than 1 away from it).
C9_AlphaIsProduct ==
    WmScaled =>
        LET d == 100 * ret.val.wm.wm_alpha - WmA * WmP
        IN  0 - 100 < d /\ d < 100
\* C9 as amended: the alpha is floor(floor(255 p / 100) * a / 255): never above
\* a * p / 100 and less than 2 below it; 0 stays 0, p = 100 leaves a unchanged,
\* p = 0 gives 0, and it never exceeds a.
C9_AlphaIsScaledDown ==
    WmScaled =>
        LET r == ret.val.wm.wm_alpha
        IN  /\ 100 * r <= WmA * WmP /\ WmA * WmP < 100 * (r + 2)
            /\ r \in 0..WmA
            /\ WmA = 0 => r = 0
            /\ WmP = 0 => r = 0
            /\ WmP = 100 => r = WmA
C9_Witness ==
    WmScaled /\ ret.fn = "process" /\ WmA = 200 /\ WmP = 50 /\ ret.val.wm.wm_alpha = 99

\* C10: in a process call the image watermark is placed from the anchor and the
\* measured size apply_text_watermark returned; with empty text that is the
\* zero-size box at the chosen corner's anchor.
C10_PlacedFromTextBox ==
    (ret.fn = "process" /\ ret.val.wm.status = "ok") =>
        LET t == ret.val.text
            w == ret.val.wm
            tx == t.text_pos[1]
            ty == t.text_pos[2]
            tw == t.text_size[1]
            th == t.text_size[2]
            ww == w.wm_size[1]
            wh == w.wm_size[2]
            sp == Spacing
            side == Side
            ox == inp.text_params.offset_x
            oy == inp.text_params.offset_y
            pos == inp.text_params.position
            at == w.wm_pos
        IN  /\ w.text_position = t.text_pos /\ w.text_size = t.text_size
            /\ side = "below" => Halves(at[1] - tx, tw - ww) /\ at[2] = ty + th + sp
            /\ side \notin {"below", "left", "right"} =>
                   Halves(at[1] - tx, tw - ww) /\ at[2] = ty - wh - sp
            /\ side = "left" => at[1] = tx - ww - sp /\ Halves(at[2] - ty, th - wh)
            /\ side = "right" => at[1] = tx + tw + sp /\ Halves(at[2] - ty, th - wh)
            /\ inp.text = "" =>
                /\ <<tw, th>> = <<0, 0>>
                /\ pos = "bottom_right" => <<tx, ty>> = <<W_ - ox, H_ - oy>>
                /\ pos = "bottom_left" => <<tx, ty>> = <<ox, H_ - oy>>
                /\ pos = "top_left" => <<tx, ty>> = <<ox, oy>>
                /\ pos = "top_right" => <<tx, ty>> = <<W_ - ox, oy>>
C10_Witness ==
    /\ ret.fn = "process" /\ ret.val.wm.status = "ok" /\ inp.text = ""
    /\ inp.text_params.position = "top_right" /\ W_ = 500 /\ H_ = 600
    /\ inp.image_params.has = ImageKeys /\ inp.image_params.position = "above"
    /\ ret.val.text.text_pos = <<450, 80>>
    /\ ret.val.wm.wm_size = <<50, 50>>
    /\ ret.val.wm.wm_pos = <<425, 25>>

\* ---------------------------------------------------- the handlers' claims
\* path i of the batch was written to the output folder
Written(i) == \E j \in DOMAIN last.wrote : last.wrote[j].path[2] = image_paths[i]

\* C6: in batch export, an image that cannot be opened aborts only its own item:
\* every other path is still processed and written, and the failures are
\* counted in a summary at the end.
C6_BatchSkipsUnreadable ==
    (last.op = "batch_export_images" /\ last.ran /\ last.error \in {"none", "OpenError"}) =>
        /\ \A i \in DOMAIN last.outcomes : last.outcomes[i] # "open_fails" => Written(i)
        /\ last.summary # <<>>

\* C7: a save failure is reported and does not abort the batch loop: every path
\* after the failed one is still processed and saved; in single-image export
\* the failure is reported and the application goes on.
C7_SaveFailureKeepsGoing ==
    /\ (last.op = "batch_export_images" /\ last.ran /\ last.error \in {"none", "SaveError"}) =>
           \A i \in DOMAIN last.outcomes : last.outcomes[i] # "save_fails" => Written(i)
    /\ (last.op = "export_image" /\ last.error = "SaveError") =>
           last.caught /\ app = "running"

\* a numeric field that is empty, or an opacity outside 0..100
InvalidNumbers ==
    \/ \E k \in {"font_size", "opacity", "offset_x", "offset_y", "spacing", "shadow_width", "shadow_intensity", "wm_size", "wm_opacity"} : fields[k] = <<>>
    \/ \E k \in {"opacity", "wm_opacity"} : fields[k] # <<>> /\ fields[k][1] \notin 0..100

\* C8: preview, export or batch export triggered on a non-numeric field or an
\* out-of-range opacity fails with a configuration error before any rendering,
\* and writes no file.
C8_InvalidConfigRejected ==
    (last.ran /\ InvalidNumbers /\ ~(last.op \in {"load_images", "load_watermark_image"} /\ last.error = "OpenError")) =>
        /\ last.error = "ValueError"
        /\ last.renders = <<>>
        /\ last.wrote = <<>>

\* --------------------------------------------------- batch export's files
Batch == last.op = "batch_export_images"
IsJpegExt(ext) == ext \in {".jpg", ".jpeg", ".JPG", ".JPEG", ".Jpg", ".Jpeg"}

\* C15: batch export writes each output to output_folder joined with the source
\* file's own base name, PNG-encoded exactly when PNG is selected and the source
\* extension is neither .jpg nor .jpeg in any case, and otherwise JPEG-encoded
\* at the selected quality with alpha dropped.
C15_BatchOutputFiles ==
    Batch =>
        \A j \in DOMAIN last.wrote :
            /\ last.wrote[j].path = <<last.settings[1].output_folder, image_paths[j]>>
            /\ last.wrote[j].format = "PNG" <=>
                    (last.settings[1].format = "PNG" /\ ~IsJpegExt(FileExt(image_paths[j])))
            /\ last.wrote[j].format = "PNG" => last.wrote[j].mode = "RGBA"
            /\ last.wrote[j].format # "PNG" =>
                    /\ last.wrote[j].format = "JPEG"
                    /\ last.wrote[j].quality = last.settings[1].quality
                    /\ last.wrote[j].mode = "RGB"
\* PNG selected: a .png source written as PNG beside a .JPEG source written as JPEG
C15_Witness ==
    /\ Batch /\ last.settings = <<[format |-> "PNG", output_folder |-> "out", quality |-> 95]>>
    /\ \E j, k \in DOMAIN last.wrote :
           /\ last.wrote[j].format = "PNG" /\ FileExt(image_paths[j]) = ".png"
           /\ last.wrote[k].format = "JPEG" /\ FileExt(image_paths[k]) = ".JPEG"

\* a batch export with paths loaded, the dialog accepted and a folder chosen
BatchStarted ==
    Batch /\ image_paths # <<>> /\ last.settings # <<>> /\ last.settings[1].output_folder # ""
NoStepFails == last.error \notin {"OpenError", "RenderError", "SaveError"}
\* every path rendered once and written once, in list order, from one set of
\* parameters
EachPathOnce ==
    /\ Len(last.renders) = Len(image_paths)
    /\ Len(last.wrote) = Len(image_paths)
    /\ \A i \in DOMAIN image_paths :
           /\ last.renders[i].file = image_paths[i]
           /\ last.wrote[i].path[2] = image_paths[i]
           /\ last.renders[i].text = last.renders[1].text
           /\ last.renders[i].text_params = last.renders[1].text_params
           /\ last.renders[i].image_params = last.renders[1].image_params
BatchIdle == (Batch /\ ~BatchStarted) => (last.renders = <<>> /\ last.wrote = <<>>)

\* C16 as stated: a batch export with n paths, an accepted dialog and an output
\* folder, in which no open, render or save fails, processes each path once in
\* list order from the same parameters and writes n files; without paths,
\* acceptance or folder it renders and writes nothing.
C16_BatchProcessesEveryPath ==
    /\ (BatchStarted /\ NoStepFails) => EachPathOnce
    /\ BatchIdle
\* C16 as amended: the same, for a batch export whose numeric fields all read as
\* integers.
C16_BatchProcessesEveryPathParsed ==
    /\ (BatchStarted /\ NoStepFails /\ ParamsParse("batch_export_images", fields)) =>
           (EachPathOnce /\ last.summary = <<Len(image_paths)>> /\ app = "running")
    /\ BatchIdle
C16_Witness ==
    /\ BatchStarted /\ NoStepFails /\ ParamsParse("batch_export_images", fields)
    /\ Len(image_paths) = 3 /\ Len(last.wrote) = 3 /\ Len(last.renders) = 3

\* ------------------------------------------------- the compositing steps
Abs(x) == IF x < 0 THEN 0 - x ELSE x

\* out is src over dst (Porter-Duff, straight alpha) to within two levels:
\* alpha sa + da * (1 - sa), colour (sc * sa + dc * da * (1 - sa)) / alpha,
\* which is sc * sa + dc * (1 - sa) on an opaque dst
IsOver(out, dst, src) ==
    LET A == 255 * src.a + dst.a * (255 - src.a)
        N == 255 * src.c * src.a + dst.c * dst.a * (255 - src.a)
    IN  /\ Abs(255 * out.a - A) <= 2 * 255
        /\ out.a > 2 => Abs(out.c * A - N) <= 2 * A

\* the layers of the process call under study, at the probe
ShadowPx == [c |-> 0, a |-> ret.val.text.shadow_alpha]
AfterShadow == IF ret.val.text.shadowed THEN AlphaComposite(Transparent, ShadowPx) ELSE Transparent
GlyphPx == [c |-> 255, a |-> RoundDiv(Clip8(ret.val.opacity) * Coverage(inp.text, inp.env), 255)]
TextLayer == AlphaComposite(Transparent, ret.val.text.overlay)
WmPx == [c |-> inp.env.wm_c, a |-> ret.val.wm.wm_alpha]
ProcessOk == ret.fn = "process" /\ ret.val.status = "ok"

ShadowStepIsOver == (ProcessOk /\ ret.val.text.shadowed) => IsOver(AfterShadow, Transparent, ShadowPx)
GlyphStepIsOver == ProcessOk => IsOver(ret.val.text.overlay, AfterShadow, GlyphPx)
WmStepIsOver ==
    (ProcessOk /\ ret.val.wm_applied /\ inp.env.inbox) => IsOver(ret.val.overlay, TextLayer, WmPx)
MergeStepIsOver == ProcessOk => IsOver(ret.val.final, ret.val.base, ret.val.overlay)

\* C12: within one process call the layers are composited in the order shadow,
\* glyph, image watermark, final merge onto the base, and each of these steps
\* is the "over" operator applied to the layers painted before it.
C12_EveryStepIsOver ==
    /\ ShadowStepIsOver
    /\ GlyphStepIsOver
    /\ WmStepIsOver
    /\ MergeStepIsOver

\* C13: whatever image_params is (absent, empty or filled in), process invokes
\* the image-watermark renderer, once and on the overlay that holds the text
\* layer, exactly when an image watermark is supplied.
C13_WmRenderedIffSupplied ==
    (ret.fn = "process" /\ ret.val.text.status = "ok") =>
        /\ (ret.val.wm.status # "none") <=> ~inp.image_watermark.none
        /\ (ret.val.wm.status = "ok" /\ ~inp.env.inbox) => ret.val.wm.overlay.px = TextLayer

\* the opacity percent a process call was given, and the alpha it derived
Percent == inp.text_params.opacity
PercentGiven ==
    ret.fn = "process" /\ "opacity" \in inp.text_params.has /\ Percent \in 0..100

\* C14: process derives the glyph alpha from the opacity percent p as
\* floor(p * 255 / 100): it lies in 0..255, does not decrease as p grows, is 0
\* at p = 0, 255 at p = 100 and 127 at p = 50.
C14_AlphaFromPercent ==
    PercentGiven =>
        /\ 100 * ret.val.opacity <= 255 * Percent
        /\ 255 * Percent < 100 * (ret.val.opacity + 1)
        /\ ret.val.opacity \in 0..255
        /\ \A q \in 0..Percent : FloorDiv(q * 255, 100) <= ret.val.opacity
        /\ Percent = 0 => ret.val.opacity = 0
        /\ Percent = 100 => ret.val.opacity = 255
        /\ Percent = 50 => ret.val.opacity = 127
C14_Witness ==
    PercentGiven /\ Percent = 50 /\ ret.val.opacity = 127 /\ ret.val.status = "ok"

====
